---- MODULE Spec2Model ----
(***************************************************************************)
(* Model of go-binarytree: a copy-on-write AVL tree with one writer        *)
(* (Insert, DropLeft) and lock-free readers (Root, Stats, Traverse).       *)
(*                                                                         *)
(* Nodes live in a heap (a sequence of records; a pointer is an index,     *)
(* NIL is 0).  Stat records live in a second heap.  The writer's calls are *)
(* split at their atomic stores, which is where a reader can observe an    *)
(* intermediate state.                                                     *)
(***************************************************************************)
EXTENDS Integers, Sequences, FiniteSets, TLC

\* ---- bounds of the model ------------------------------------------------
MaxKey == 6          \* the writer inserts keys 1..MaxKey
MaxVal == 1          \* and values 1..MaxVal (the initial tree holds value 0)
MaxOps == 2          \* writer calls made on top of the initial tree
MaxReaderKey == 3    \* keys inserted while a reader runs
MaxReaderVal == 2    \* values inserted while a reader runs
MaxReaderOps == 3    \* writer calls made while a reader runs

Keys       == 1..MaxKey
ReaderKeys == 1..MaxReaderKey
Values     == 1..MaxVal
ReaderValues == 1..MaxReaderVal

NIL == 0

VARIABLES
    heap,      \* Seq of Node records: every Node ever allocated
    sheap,     \* Seq of Stat records: every Stat ever allocated
    root,      \* BinaryTree.root  (pointer into heap, or NIL)
    stats,     \* BinaryTree.stats (pointer into sheap)
    pc,        \* writer position: "idle", "L300", "L442", "panic"
    r,         \* writer local r (result of insert / dropLeft, not yet stored)
    log,       \* history: the writer calls begun so far
    pub,       \* history: every value root has held, oldest first
    pre,       \* history: contents and Stats() at entry of the current/last call
    rsnap,     \* reader: the snapshot obtained from Root()
    rstack,    \* reader: Traverse call stack (nodes whose left side is done)
    rvisited,  \* reader: the (key, value) pairs f has been called with
    rexpect,   \* history: in-order contents of rsnap when it was loaded
    rver,      \* history: how many root values had been published at the load
    n0,        \* history: how many writer calls built the initial tree
    unrot,     \* history: in the last Insert, balance returned a node unrotated
               \*          although its subtree heights differ by more than 1
    added      \* src/tree.go: BinaryTree.added

vars == <<heap, sheap, root, stats, pc, r, log, pub, pre,
          rsnap, rstack, rvisited, rexpect, rver, n0, unrot, added>>

wvars == <<heap, sheap, root, stats, pc, r, log, pub, pre, n0, unrot, added>>
rvars == <<rsnap, rstack, rvisited, rexpect, rver>>

\* ---- Node, Stat ------------------------------------------------------------
Node(k, v, l, rt, h) ==
    [Key |-> k, Value |-> v, left |-> l, right |-> rt, height |-> h]

Stat(a, d, s) == [Added |-> a, Dropped |-> d, Size |-> s]

\* Stats(): copy the published record and fill in Size.
StatsOf(sh, sp) ==
    Stat(sh[sp].Added, sh[sp].Dropped, sh[sp].Added - sh[sp].Dropped)

Stats == StatsOf(sheap, stats)

\* ---- height utilities ------------------------------------------------------
findHeight(h, l, rt) ==
    LET hl == IF l # NIL THEN h[l].height ELSE 0
        hr == IF rt # NIL THEN h[rt].height ELSE 0
    IN  IF hl > hr THEN hl + 1 ELSE hr + 1

findNodeHeight(h, n) ==
    IF n = NIL THEN 0 ELSE findHeight(h, h[n].left, h[n].right)

\* ---- the writer's machine: heap, stat heap, stats pointer, result, panic ----
\* (unrot records that balance gave back an unbalanced node as it was)
MachineOf(h, sh, sp) ==
    [heap |-> h, sheap |-> sh, stats |-> sp, ret |-> NIL, panic |-> FALSE,
     unrot |-> FALSE]

Machine == MachineOf(heap, sheap, stats)

\* A nil pointer dereference: the call unwinds, nothing more is done.
Panic(m) == [m EXCEPT !.panic = TRUE, !.ret = NIL]

\* &Node{...}
NewNode(m, nd) ==
    [m EXCEPT !.heap = Append(@, nd), !.ret = Len(m.heap) + 1]

\* rightRotate with the new y taking x.left instead of x.right
rightRotateWrongChild(m, y) ==
    IF y = NIL THEN Panic(m)
    ELSE IF m.heap[y].left = NIL THEN Panic(m)
    ELSE
      LET h0 == m.heap
          x  == h0[y].left
          t2 == h0[x].left
          yn == Len(h0) + 1
          xn == Len(h0) + 2
          h1 == Append(h0, Node(h0[y].Key, h0[y].Value, t2, h0[y].right, 0))
          h2 == Append(h1, Node(h0[x].Key, h0[x].Value, h0[x].left, yn, 0))
          h3 == [h2 EXCEPT ![yn].height = findNodeHeight(h2, yn)]
          h4 == [h3 EXCEPT ![xn].height = findNodeHeight(h3, xn)]
      IN  [m EXCEPT !.heap = h4, !.ret = xn]

rightRotate(m, y) ==
    IF y = NIL THEN Panic(m)
    ELSE IF m.heap[y].left = NIL THEN Panic(m)
    ELSE
      LET h0 == m.heap
          x  == h0[y].left
          t2 == h0[x].right
          yn == Len(h0) + 1
          xn == Len(h0) + 2
          h1 == Append(h0, Node(h0[y].Key, h0[y].Value, t2, h0[y].right, 0))
          h2 == Append(h1, Node(h0[x].Key, h0[x].Value, h0[x].left, yn, 0))
          h3 == [h2 EXCEPT ![yn].height = findNodeHeight(h2, yn)]
          h4 == [h3 EXCEPT ![xn].height = findNodeHeight(h3, xn)]
      IN  [m EXCEPT !.heap = h4, !.ret = xn]

leftRotate(m, x) ==
    IF x = NIL THEN Panic(m)
    ELSE IF m.heap[x].right = NIL THEN Panic(m)
    ELSE
      LET h0 == m.heap
          y  == h0[x].right
          t2 == h0[y].left
          xn == Len(h0) + 1
          yn == Len(h0) + 2
          h1 == Append(h0, Node(h0[x].Key, h0[x].Value, h0[x].left, t2, 0))
          h2 == Append(h1, Node(h0[y].Key, h0[y].Value, xn, h0[y].right, 0))
          h3 == [h2 EXCEPT ![xn].height = findNodeHeight(h2, xn)]
          h4 == [h3 EXCEPT ![yn].height = findNodeHeight(h3, yn)]
      IN  [m EXCEPT !.heap = h4, !.ret = yn]

\* balance(n, key): n is the node insert has just built.
balance(m, n, key) ==
    LET h  == m.heap
        l  == h[n].left
        rt == h[n].right
        hl == findNodeHeight(h, l)
        hr == findNodeHeight(h, rt)
        b  == hl - hr
    IN
    IF b > 1 /\ l = NIL THEN Panic(m)
    ELSE IF b > 1 /\ key < h[l].Key THEN rightRotate(m, n)        \* Left Left
    ELSE IF b < -1 /\ rt = NIL THEN Panic(m)
    ELSE IF b < -1 /\ key > h[rt].Key THEN leftRotate(m, n)       \* Right Right
    ELSE IF b > 1 /\ key > h[l].Key THEN                          \* Left Right
        LET m1 == leftRotate(m, l)
        IN  IF m1.panic THEN m1
            ELSE rightRotate([m1 EXCEPT !.heap[n].left = m1.ret], n)
    ELSE IF b < -1 /\ key < h[rt].Key THEN                        \* Right Left
        IF l = NIL \/ h[rt].left = NIL
        THEN [m EXCEPT !.ret = n, !.unrot = TRUE]
        ELSE LET m1 == rightRotate(m, rt)
             IN  IF m1.panic THEN m1
                 ELSE leftRotate([m1 EXCEPT !.heap[n].right = m1.ret], n)
    ELSE [m EXCEPT !.ret = n, !.unrot = @ \/ b > 1 \/ b < -1]

\* insertLeaf incrementing Added in the published Stat record itself
insertLeafInPlace(m, key, value) ==
    NewNode([m EXCEPT !.sheap[m.stats].Added = @ + 1],
            Node(key, value, NIL, NIL, 1))

\* insertLeaf building the leaf without publishing Added+1
insertLeafNoCount(m, key, value) ==
    NewNode(m, Node(key, value, NIL, NIL, 1))

\* insert at an empty position: publish Added+1, then build the leaf.
insertLeaf(m, key, value) ==
    LET s  == m.sheap[m.stats]
        m1 == [m EXCEPT !.sheap = Append(@, [s EXCEPT !.Added = @ + 1]),
                        !.stats = Len(m.sheap) + 1]
    IN  NewNode(m1, Node(key, value, NIL, NIL, 1))

\* insertReplace overwriting the value of the existing node instead of copying it
insertReplaceInPlace(m, key, value, n) ==
    [m EXCEPT !.heap[n].Value = value, !.ret = n]

\* insertReplace copying the node with its old value
insertReplaceKeepsValue(m, key, value, n) ==
    NewNode(m, Node(key, m.heap[n].Value, m.heap[n].left, m.heap[n].right,
                    m.heap[n].height))

\* insert at the node that holds the key: a copy with the new value.
insertReplace(m, key, value, n) ==
    NewNode(m, Node(key, value, m.heap[n].left, m.heap[n].right,
                    m.heap[n].height))

RECURSIVE insert(_, _, _, _)
insert(m, key, value, n) ==
    IF n = NIL THEN insertLeaf(m, key, value)
    ELSE IF key < m.heap[n].Key THEN
        LET m1 == insert(m, key, value, m.heap[n].left)
            m2 == NewNode(m1, Node(m1.heap[n].Key, m1.heap[n].Value,
                                   m1.ret, m1.heap[n].right, 0))
            nn == m2.ret
            m3 == [m2 EXCEPT !.heap[nn].height =
                       findHeight(m2.heap, m2.heap[nn].left, m2.heap[nn].right)]
        IN  IF m1.panic THEN m1 ELSE balance(m3, nn, key)
    ELSE IF key > m.heap[n].Key THEN
        LET m1 == insert(m, key, value, m.heap[n].right)
            m2 == NewNode(m1, Node(m1.heap[n].Key, m1.heap[n].Value,
                                   m1.heap[n].left, m1.ret, 0))
            nn == m2.ret
            m3 == [m2 EXCEPT !.heap[nn].height =
                       findHeight(m2.heap, m2.heap[nn].left, m2.heap[nn].right)]
        IN  IF m1.panic THEN m1 ELSE balance(m3, nn, key)
    ELSE insertReplace(m, key, value, n)

\* dropLeft rebuilding the chain with the heights the old nodes had
RECURSIVE dropLeftKeepsHeight(_, _)
dropLeftKeepsHeight(m, n) ==
    IF n = NIL THEN [m EXCEPT !.ret = NIL]
    ELSE IF m.heap[n].left = NIL THEN [m EXCEPT !.ret = m.heap[n].right]
    ELSE
        LET m1 == dropLeftKeepsHeight(m, m.heap[n].left)
        IN  NewNode(m1, Node(m1.heap[n].Key, m1.heap[n].Value,
                             m1.ret, m1.heap[n].right, m1.heap[n].height))

\* dropLeft returning nil for the left most node instead of its right child
RECURSIVE dropLeftLosesRight(_, _)
dropLeftLosesRight(m, n) ==
    IF n = NIL THEN [m EXCEPT !.ret = NIL]
    ELSE IF m.heap[n].left = NIL THEN [m EXCEPT !.ret = NIL]
    ELSE
        LET m1 == dropLeftLosesRight(m, m.heap[n].left)
            m2 == NewNode(m1, Node(m1.heap[n].Key, m1.heap[n].Value,
                                   m1.ret, m1.heap[n].right, 0))
            nn == m2.ret
        IN  [m2 EXCEPT !.heap[nn].height = findNodeHeight(m2.heap, nn)]

RECURSIVE dropLeft(_, _)
dropLeft(m, n) ==
    IF n = NIL THEN [m EXCEPT !.ret = NIL]
    ELSE IF m.heap[n].left = NIL THEN [m EXCEPT !.ret = m.heap[n].right]
    ELSE
        LET m1 == dropLeft(m, m.heap[n].left)
            m2 == NewNode(m1, Node(m1.heap[n].Key, m1.heap[n].Value,
                                   m1.ret, m1.heap[n].right, 0))
            nn == m2.ret
        IN  [m2 EXCEPT !.heap[nn].height = findNodeHeight(m2.heap, nn)]

\* ---- read-only procedures over a snapshot ------------------------------------
\* Traverse(n, f) with f always answering true: the calls to f, in order.
RECURSIVE Traverse(_, _)
Traverse(h, n) ==
    IF n = NIL THEN <<>>
    ELSE Traverse(h, h[n].left) \o <<<<h[n].Key, h[n].Value>>>>
             \o Traverse(h, h[n].right)

\* TraverseF going on with the node and the right side after the left side was stopped
RECURSIVE TraverseFIgnoresLeft(_, _, _, _)
TraverseFIgnoresLeft(h, n, calls, stop) ==
    IF n = NIL THEN [calls |-> calls, ret |-> TRUE]
    ELSE
      LET a == TraverseFIgnoresLeft(h, h[n].left, calls, stop)
          c == Append(a.calls, <<h[n].Key, h[n].Value>>)
      IN  IF Len(c) = stop THEN [calls |-> c, ret |-> FALSE]
          ELSE LET b == TraverseFIgnoresLeft(h, h[n].right, c, stop)
               IN  IF ~b.ret THEN [calls |-> b.calls, ret |-> FALSE]
                   ELSE [calls |-> b.calls, ret |-> TRUE]

\* Traverse(n, f) with a visitor f that records its calls and answers false on its
\* stop-th call (never, when stop = 0): the calls made to f so far and Traverse's result.
RECURSIVE TraverseF(_, _, _, _)
TraverseF(h, n, calls, stop) ==
    IF n = NIL THEN [calls |-> calls, ret |-> TRUE]
    ELSE
      LET a == TraverseF(h, h[n].left, calls, stop)
          c == Append(a.calls, <<h[n].Key, h[n].Value>>)
      IN  IF ~a.ret THEN [calls |-> a.calls, ret |-> FALSE]
          ELSE IF Len(c) = stop THEN [calls |-> c, ret |-> FALSE]
          ELSE LET b == TraverseF(h, h[n].right, c, stop)
               IN  IF ~b.ret THEN [calls |-> b.calls, ret |-> FALSE]
                   ELSE [calls |-> b.calls, ret |-> TRUE]

\* The frames Traverse pushes while it goes down the left side of n, outermost first.
RECURSIVE Descend(_, _)
Descend(h, n) ==
    IF n = NIL THEN <<>> ELSE <<n>> \o Descend(h, h[n].left)

\* heightFrom answering with the number of nodes above the one found
RECURSIVE heightFromCountsAbove(_, _, _, _)
heightFromCountsAbove(h, key, count, n) ==
    IF n = NIL THEN 0
    ELSE IF key < h[n].Key THEN heightFromCountsAbove(h, key, count + 1, h[n].left)
    ELSE IF key > h[n].Key THEN heightFromCountsAbove(h, key, count + 1, h[n].right)
    ELSE count

RECURSIVE heightFrom(_, _, _, _)
heightFrom(h, key, count, n) ==
    IF n = NIL THEN 0
    ELSE IF key < h[n].Key THEN heightFrom(h, key, count + 1, h[n].left)
    ELSE IF key > h[n].Key THEN heightFrom(h, key, count + 1, h[n].right)
    ELSE count + 1

HeightFrom(h, key, n) == heightFrom(h, key, 0, n)

\* ---- initial states ------------------------------------------------------------------
\* New()
NewTree ==
    [heap |-> <<>>, sheap |-> <<Stat(0, 0, 0)>>, root |-> NIL, stats |-> 1,
     log |-> <<>>, pub |-> <<NIL>>,
     pre |-> [kv |-> <<>>, stat |-> Stat(0, 0, 0)], unrot |-> FALSE]

\* The insert sequences of the tests of tree_test.go (Left Left, Left Right,
\* Right Right, Right Left, drops the left node), with each key replaced by its rank
\* among the keys of its test: the code only compares keys.
TestInserts ==
    { <<5, 3, 6, 2, 4, 1>>,
      <<5, 2, 6, 1, 3, 4>>,
      <<2, 1, 4, 3, 5, 6>>,
      <<2, 1, 5, 3, 6, 4>>,
      <<5, 3, 6, 4, 2>> }

\* Insert sequences on which balance takes the early return of its Right Left branch
\* and so leaves nodes unbalanced.  The first one builds 1 -> (nil, 4 -> (2 -> (nil, 3), 5)).
\* The second one (keys may be any int64) builds a tree whose root 3 has a left child 2
\* of height 4 without a right child, and a right child of height 3.
SkewInserts ==
    { <<1, 5, 2, 4, 3>>,
      <<-1, 6, 0, 5, 4, 2, 1, 5, 3>> }

\* The tree after New() and complete Insert(s[i], 0) calls for i = 1..Len(s).
RECURSIVE Replay(_)
Replay(s) ==
    IF s = <<>> THEN NewTree
    ELSE LET st == Replay(SubSeq(s, 1, Len(s) - 1))
             k  == s[Len(s)]
             m  == insert(MachineOf(st.heap, st.sheap, st.stats), k, 0, st.root)
         IN  [heap |-> m.heap, sheap |-> m.sheap, root |-> m.ret, stats |-> m.stats,
              log |-> Append(st.log, [op |-> "Insert", key |-> k, value |-> 0]),
              pub |-> Append(st.pub, m.ret),
              pre |-> [kv |-> Traverse(st.heap, st.root),
                       stat |-> StatsOf(st.sheap, st.stats)],
              unrot |-> m.unrot]

\* The writer is between calls, the reader has not called Root() yet, and the tree is
\* the one built by some prefix (possibly empty) of one of the insert sequences of S.
InitFrom(S) ==
    /\ \E s \in S : \E n \in 0..Len(s) :
          LET st == Replay(SubSeq(s, 1, n))
          IN  /\ heap = st.heap
              /\ sheap = st.sheap
              /\ root = st.root
              /\ stats = st.stats
              /\ log = st.log
              /\ pub = st.pub
              /\ pre = st.pre
              /\ unrot = st.unrot
              /\ n0 = n
    /\ pc = "idle"
    /\ r = NIL
    /\ added = 0
    /\ rsnap = NIL
    /\ rstack = <<>>
    /\ rvisited = <<>>
    /\ rexpect = <<>>
    /\ rver = 0

\* The tree is the one built by some prefix of a test's insert sequence.
Init == InitFrom(TestInserts)

\* The state right after New().
InitNew == Init /\ n0 = 0

\* The tree is one that Insert alone has left unbalanced (or a prefix of its history).
InitSkew == InitFrom(SkewInserts)

\* A history of calls, <<k>> standing for Insert(k, 0) and <<>> for DropLeft(), in the
\* manner of the fuzz test (Insert calls with DropLeft calls in between, never on an
\* empty tree; 58 calls on 30 keys).  It ends in a tree of 14 keys whose longest path
\* has 8 nodes: 17 -> 18 -> 26 -> 19 -> 23 -> 20 -> 22 -> 21.
FuzzCalls ==
    << <<30>>, <<24>>, <<5>>, <<4>>, <<1>>, <<3>>, <<2>>, <<23>>,
       <<22>>, <<20>>, <<17>>, <<29>>, <<>>, <<>>, <<>>, <<9>>,
       <<6>>, <<11>>, <<10>>, <<8>>, <<7>>, <<19>>, <<10>>, <<25>>,
       <<18>>, <<22>>, <<28>>, <<27>>, <<>>, <<26>>, <<>>, <<>>,
       <<>>, <<>>, <<>>, <<12>>, <<16>>, <<15>>, <<14>>, <<13>>,
       <<29>>, <<18>>, <<25>>, <<24>>, <<22>>, <<22>>, <<27>>, <<16>>,
       <<24>>, <<27>>, <<>>, <<21>>, <<>>, <<>>, <<>>, <<>>,
       <<>>, <<>> >>

\* ---- writer ------------------------------------------------------------------------
\* InsertBuild that also stores the root as soon as insert returns
InsertBuildStoresEarly(key, value) ==
    /\ pc = "idle"
    /\ LET m == insert(Machine, key, value, root)
       IN  /\ heap' = m.heap
           /\ sheap' = m.sheap
           /\ stats' = m.stats
           /\ r' = m.ret
           /\ pc' = IF m.panic THEN "panic" ELSE "L300"
           /\ unrot' = m.unrot
           /\ root' = m.ret
           /\ pub' = Append(pub, m.ret)
    /\ log' = Append(log, [op |-> "Insert", key |-> key, value |-> value])
    /\ pre' = [kv |-> Traverse(heap, root), stat |-> Stats]
    /\ UNCHANGED <<n0, added>>
    /\ UNCHANGED rvars

\* Insert, line 299: r := t.insert(key, value, t.root)
InsertBuild(key, value) ==
    /\ pc = "idle"
    /\ LET m == insert(Machine, key, value, root)
       IN  /\ heap' = m.heap
           /\ sheap' = m.sheap
           /\ stats' = m.stats
           /\ r' = m.ret
           /\ pc' = IF m.panic THEN "panic" ELSE "L300"
           /\ unrot' = m.unrot
    /\ log' = Append(log, [op |-> "Insert", key |-> key, value |-> value])
    /\ pre' = [kv |-> Traverse(heap, root), stat |-> Stats]
    /\ UNCHANGED <<root, pub, n0, added>>
    /\ UNCHANGED rvars

\* InsertStore storing the root it read at entry instead of r
InsertStoreStale ==
    /\ pc = "L300"
    /\ root' = root
    /\ pub' = Append(pub, root)
    /\ pc' = "idle"
    /\ UNCHANGED <<heap, sheap, stats, r, log, pre, n0, unrot, added>>
    /\ UNCHANGED rvars

\* Insert, line 300: atomic.StorePointer(&t.root, r)
InsertStore ==
    /\ pc = "L300"
    /\ root' = r
    /\ pub' = Append(pub, r)
    /\ pc' = "idle"
    /\ UNCHANGED <<heap, sheap, stats, r, log, pre, n0, unrot, added>>
    /\ UNCHANGED rvars

\* DropLeft, lines 437-441: publish Dropped+1, then r := t.dropLeft(t.root)
DropLeftBuild ==
    /\ pc = "idle"
    /\ LET s  == sheap[stats]
           m0 == [Machine EXCEPT
                     !.sheap = Append(@, [s EXCEPT !.Dropped = @ + 1]),
                     !.stats = Len(sheap) + 1]
           m  == dropLeft(m0, root)
       IN  /\ heap' = m.heap
           /\ sheap' = m.sheap
           /\ stats' = m.stats
           /\ r' = m.ret
    /\ pc' = "L442"
    /\ unrot' = FALSE
    /\ log' = Append(log, [op |-> "DropLeft"])
    /\ pre' = [kv |-> Traverse(heap, root), stat |-> Stats]
    /\ UNCHANGED <<root, pub, n0, added>>
    /\ UNCHANGED rvars

\* DropLeft, line 442: atomic.StorePointer(&t.root, r)
DropLeftStore ==
    /\ pc = "L442"
    /\ root' = r
    /\ pub' = Append(pub, r)
    /\ pc' = "idle"
    /\ UNCHANGED <<heap, sheap, stats, r, log, pre, n0, unrot, added>>
    /\ UNCHANGED rvars

\* ---- reader ------------------------------------------------------------------------
\* Root(), then the start of Traverse on the snapshot (down to the first call of f).
ReaderRoot ==
    /\ rsnap' = root
    /\ rstack' = Descend(heap, root)
    /\ rvisited' = <<>>
    /\ rexpect' = Traverse(heap, root)
    /\ rver' = Len(pub)
    /\ UNCHANGED wvars

\* Traverse: the next call of f, then down the left side of the right child.
ReaderVisit ==
    /\ rstack # <<>>
    /\ LET n == rstack[Len(rstack)]
       IN  /\ rvisited' = Append(rvisited, <<heap[n].Key, heap[n].Value>>)
           /\ rstack' = SubSeq(rstack, 1, Len(rstack) - 1)
                            \o Descend(heap, heap[n].right)
    /\ UNCHANGED <<rsnap, rexpect, rver>>
    /\ UNCHANGED wvars

\* The writer calls made since the initial state.
Calls == Len(log) - n0

\* The writer calls Insert with some key and value.
CallInsert ==
    \E key \in Keys, value \in Values : Calls < MaxOps /\ InsertBuild(key, value)

\* The writer calls DropLeft.
CallDropLeft == Calls < MaxOps /\ DropLeftBuild

\* One writer, no reader.
Next ==
    \/ CallInsert
    \/ InsertStore
    \/ CallDropLeft
    \/ DropLeftStore

Spec == Init /\ [][Next]_vars

\* The same writer, starting from the unbalanced trees.
SpecSkew == InitSkew /\ [][Next]_vars

\* The number of leading calls of the log that are the calls of FuzzCalls, in order.
ScriptLen ==
    LET Follows(i) ==
            /\ i <= Len(FuzzCalls)
            /\ IF FuzzCalls[i] = <<>> THEN log[i].op = "DropLeft"
               ELSE /\ log[i].op = "Insert"
                    /\ log[i].key = FuzzCalls[i][1]
                    /\ log[i].value = 0
    IN  Cardinality({n \in 1..Len(log) : \A i \in 1..n : Follows(i)})

\* The writer makes the next Insert call of the history.
FuzzInsert ==
    /\ ScriptLen = Len(log)
    /\ Len(log) < Len(FuzzCalls)
    /\ FuzzCalls[Len(log) + 1] # <<>>
    /\ InsertBuild(FuzzCalls[Len(log) + 1][1], 0)

\* The writer makes the next DropLeft call of the history.
FuzzDropLeft ==
    /\ ScriptLen = Len(log)
    /\ Len(log) < Len(FuzzCalls)
    /\ FuzzCalls[Len(log) + 1] = <<>>
    /\ DropLeftBuild

\* The writer leaves the history and calls Insert with some key and value.
OwnInsert ==
    \E key \in Keys, value \in Values :
        Len(log) - ScriptLen < MaxOps /\ InsertBuild(key, value)

\* The writer leaves the history and calls DropLeft.
OwnDropLeft == Len(log) - ScriptLen < MaxOps /\ DropLeftBuild

\* One writer that follows the history from New() and then makes calls of its own.
NextFuzz ==
    \/ FuzzInsert
    \/ InsertStore
    \/ FuzzDropLeft
    \/ DropLeftStore
    \/ OwnInsert
    \/ OwnDropLeft

SpecFuzz == InitNew /\ [][NextFuzz]_vars

\* The writer's calls while a reader runs.
CallInsertR ==
    \E key \in ReaderKeys, value \in ReaderValues :
        Calls < MaxReaderOps /\ InsertBuild(key, value)

CallDropLeftR == Calls < MaxReaderOps /\ DropLeftBuild

\* One writer interleaved with a reader, from New().
NextR ==
    \/ CallInsertR
    \/ InsertStore
    \/ CallDropLeftR
    \/ DropLeftStore
    \/ ReaderRoot
    \/ ReaderVisit

SpecR == InitNew /\ [][NextR]_vars

\* A call that has begun returns, and the reader keeps polling Root().
FairSpecR ==
    /\ SpecR
    /\ WF_vars(InsertStore)
    /\ WF_vars(DropLeftStore)
    /\ WF_vars(ReaderRoot)

\* ---- src/tree.go: the variant that tells the rotation cases by pointer identity -----------
\* (Insert only; findHeight and findNodeHeight are the same as above)
PtrMachine == [heap |-> heap, added |-> added, ret |-> NIL, x |-> NIL, ok |-> FALSE,
               panic |-> FALSE]

\* PtrBalance taking every left-heavy or right-heavy node for the straight case
\* (Left Left, Right Right), whatever x is
PtrBalanceAlwaysStraight(m, x, y, z) ==
    LET h  == m.heap
        hl == findNodeHeight(h, h[z].left)
        hr == findNodeHeight(h, h[z].right)
        n1 == Len(h) + 1
        n2 == Len(h) + 2
    IN
    IF hr - hl < -1 THEN
        IF y = NIL THEN Panic(m)
        ELSE
            LET h1 == Append(h,  Node(h[z].Key, h[z].Value, h[y].right, h[z].right,
                                      h[z].height))
                h2 == Append(h1, Node(h[y].Key, h[y].Value, h[y].left, n1,
                                      h[y].height))
                h3 == [h2 EXCEPT ![n1].height = findNodeHeight(h2, n1)]
                h4 == [h3 EXCEPT ![n2].height = findNodeHeight(h3, n2)]
            IN  [m EXCEPT !.heap = h4, !.ret = n2]
    ELSE IF hr - hl > 1 THEN
        IF y = NIL THEN Panic(m)
        ELSE
            LET h1 == Append(h,  Node(h[z].Key, h[z].Value, h[z].left, h[y].left,
                                      h[z].height))
                h2 == Append(h1, Node(h[y].Key, h[y].Value, n1, h[y].right,
                                      h[y].height))
                h3 == [h2 EXCEPT ![n1].height = findNodeHeight(h2, n1)]
                h4 == [h3 EXCEPT ![n2].height = findNodeHeight(h3, n2)]
            IN  [m EXCEPT !.heap = h4, !.ret = n2]
    ELSE [m EXCEPT !.ret = z]

\* balance(x, y, z) of src/tree.go: z is the node insert has just built, y its child on
\* the side of the insertion, x the child of y that the level below handed up.
PtrBalance(m, x, y, z) ==
    LET h  == m.heap
        hl == findNodeHeight(h, h[z].left)
        hr == findNodeHeight(h, h[z].right)
        n1 == Len(h) + 1
        n2 == Len(h) + 2
        n3 == Len(h) + 3
    IN
    IF hr - hl < -1 THEN
        IF y = NIL THEN Panic(m)
        ELSE IF x = h[y].left THEN                                 \* Left Left
            LET h1 == Append(h,  Node(h[z].Key, h[z].Value, h[y].right, h[z].right,
                                      h[z].height))
                h2 == Append(h1, Node(h[y].Key, h[y].Value, h[y].left, n1,
                                      h[y].height))
                h3 == [h2 EXCEPT ![n1].height = findNodeHeight(h2, n1)]
                h4 == [h3 EXCEPT ![n2].height = findNodeHeight(h3, n2)]
            IN  [m EXCEPT !.heap = h4, !.ret = n2]
        ELSE IF x = NIL THEN Panic(m)
        ELSE                                                       \* Left Right
            LET h1 == Append(h,  Node(h[y].Key, h[y].Value, h[y].left, h[x].left,
                                      h[y].height))
                h2 == Append(h1, Node(h[x].Key, h[x].Value, n1, h[x].right,
                                      h[x].height))
                h3 == Append(h2, Node(h[z].Key, h[z].Value, h2[n2].right, h[z].right,
                                      h[z].height))
                h4 == [h3 EXCEPT ![n2].right = n3]
                h5 == [h4 EXCEPT ![n1].height = findNodeHeight(h4, n1)]
                h6 == [h5 EXCEPT ![n3].height = findNodeHeight(h5, n3)]
                h7 == [h6 EXCEPT ![n2].height = findNodeHeight(h6, n2)]
            IN  [m EXCEPT !.heap = h7, !.ret = n2]
    ELSE IF hr - hl > 1 THEN
        IF y = NIL THEN Panic(m)
        ELSE IF x = h[y].right THEN                                \* Right Right
            LET h1 == Append(h,  Node(h[z].Key, h[z].Value, h[z].left, h[y].left,
                                      h[z].height))
                h2 == Append(h1, Node(h[y].Key, h[y].Value, n1, h[y].right,
                                      h[y].height))
                h3 == [h2 EXCEPT ![n1].height = findNodeHeight(h2, n1)]
                h4 == [h3 EXCEPT ![n2].height = findNodeHeight(h3, n2)]
            IN  [m EXCEPT !.heap = h4, !.ret = n2]
        ELSE IF x = NIL THEN Panic(m)
        ELSE                                                       \* Right Left
            LET h1 == Append(h,  Node(h[y].Key, h[y].Value, h[x].right, h[y].right,
                                      h[y].height))
                h2 == Append(h1, Node(h[x].Key, h[x].Value, h[x].left, n1,
                                      h[x].height))
                h3 == Append(h2, Node(h[z].Key, h[z].Value, h[z].left, h2[n2].left,
                                      h[z].height))
                h4 == [h3 EXCEPT ![n2].left = n3]
                h5 == [h4 EXCEPT ![n1].height = findNodeHeight(h4, n1)]
                h6 == [h5 EXCEPT ![n3].height = findNodeHeight(h5, n3)]
                h7 == [h6 EXCEPT ![n2].height = findNodeHeight(h6, n2)]
            IN  [m EXCEPT !.heap = h7, !.ret = n2]
    ELSE [m EXCEPT !.ret = z]                                      \* Balanced

\* insert of src/tree.go: the results are (ret, x, ok).
RECURSIVE PtrInsertRec(_, _, _, _)
PtrInsertRec(m, key, value, n) ==
    IF n = NIL THEN
        [m EXCEPT !.added = @ + 1,
                  !.heap = Append(@, Node(key, value, NIL, NIL, 1)),
                  !.ret = Len(m.heap) + 1, !.x = NIL, !.ok = TRUE]
    ELSE IF key < m.heap[n].Key THEN
        LET m1   == PtrInsertRec(m, key, value, m.heap[n].left)
            left == m1.ret
            m2   == NewNode(m1, Node(m1.heap[n].Key, m1.heap[n].Value, left,
                                     m1.heap[n].right,
                                     findHeight(m1.heap, left, m1.heap[n].right)))
            m3   == PtrBalance(m2, m1.x, left, m2.ret)
        IN  IF m1.panic THEN m1 ELSE [m3 EXCEPT !.x = left, !.ok = m1.ok]
    ELSE IF key > m.heap[n].Key THEN
        LET m1    == PtrInsertRec(m, key, value, m.heap[n].right)
            right == m1.ret
            m2    == NewNode(m1, Node(m1.heap[n].Key, m1.heap[n].Value,
                                      m1.heap[n].left, right,
                                      findHeight(m1.heap, m1.heap[n].left, right)))
            m3    == PtrBalance(m2, m1.x, right, m2.ret)
        IN  IF m1.panic THEN m1 ELSE [m3 EXCEPT !.x = right, !.ok = m1.ok]
    ELSE
        [m EXCEPT !.heap = Append(@, Node(key, value, m.heap[n].left, m.heap[n].right,
                                          m.heap[n].height)),
                  !.ret = Len(m.heap) + 1, !.x = NIL, !.ok = FALSE]

\* Size() of src/tree.go
Size == added

\* The tree after New() and complete Insert(s[i], 0) calls of src/tree.go.
RECURSIVE PtrReplay(_)
PtrReplay(s) ==
    IF s = <<>> THEN [heap |-> <<>>, root |-> NIL, added |-> 0, log |-> <<>>]
    ELSE LET st == PtrReplay(SubSeq(s, 1, Len(s) - 1))
             k  == s[Len(s)]
             m  == PtrInsertRec([heap |-> st.heap, added |-> st.added, ret |-> NIL,
                                 x |-> NIL, ok |-> FALSE, panic |-> FALSE],
                                k, 0, st.root)
         IN  [heap |-> m.heap, root |-> m.ret, added |-> m.added,
              log |-> Append(st.log, [op |-> "Insert", key |-> k, value |-> 0])]

\* src/tree.go between calls: the tree built by some prefix of a test's insert sequence.
PtrInit ==
    /\ \E s \in TestInserts : \E n \in 0..Len(s) :
          LET st == PtrReplay(SubSeq(s, 1, n))
          IN  /\ heap = st.heap
              /\ root = st.root
              /\ added = st.added
              /\ log = st.log
              /\ n0 = n
    /\ sheap = <<Stat(0, 0, 0)>>
    /\ stats = 1
    /\ pc = "idle"
    /\ r = NIL
    /\ pub = <<NIL>>
    /\ pre = [kv |-> <<>>, stat |-> Stat(0, 0, 0)]
    /\ unrot = FALSE
    /\ rsnap = NIL
    /\ rstack = <<>>
    /\ rvisited = <<>>
    /\ rexpect = <<>>
    /\ rver = 0

\* Insert of src/tree.go, lines 51-54 (no reader here, so the call is one step).
PtrInsert(key, value) ==
    /\ pc = "idle"
    /\ LET m == PtrInsertRec(PtrMachine, key, value, root)
       IN  /\ heap' = m.heap
           /\ added' = m.added
           /\ root' = IF m.panic THEN root ELSE m.ret
           /\ pc' = IF m.panic THEN "panic" ELSE "idle"
    /\ log' = Append(log, [op |-> "Insert", key |-> key, value |-> value])
    /\ pre' = [kv |-> Traverse(heap, root), stat |-> pre.stat]
    /\ UNCHANGED <<sheap, stats, r, pub, n0, unrot>>
    /\ UNCHANGED rvars

PtrCallInsert ==
    \E key \in Keys, value \in Values : Calls < MaxOps /\ PtrInsert(key, value)

PtrNext == PtrCallInsert

PtrSpec == PtrInit /\ [][PtrNext]_vars

\* ---- what a snapshot contains (structural, independent of the cached heights) ----
RECURSIVE Reach(_, _)
Reach(h, n) ==
    IF n = NIL THEN {}
    ELSE {n} \cup Reach(h, h[n].left) \cup Reach(h, h[n].right)

RECURSIVE TrueHeight(_, _)
TrueHeight(h, n) ==
    IF n = NIL THEN 0
    ELSE LET a == TrueHeight(h, h[n].left)
             b == TrueHeight(h, h[n].right)
         IN  1 + (IF a > b THEN a ELSE b)

KeysOf(h, n) == {h[p].Key : p \in Reach(h, n)}

\* every node: left keys smaller, right keys greater
IsBST(h, n) ==
    \A p \in Reach(h, n) :
        /\ \A k \in KeysOf(h, h[p].left)  : k < h[p].Key
        /\ \A k \in KeysOf(h, h[p].right) : k > h[p].Key

\* every node: sibling subtree heights differ by at most 1
IsAVL(h, n) ==
    \A p \in Reach(h, n) :
        LET d == TrueHeight(h, h[p].left) - TrueHeight(h, h[p].right)
        IN  d >= -1 /\ d <= 1

StrictlyAscending(s) == \A i \in 1..(Len(s) - 1) : s[i][1] < s[i + 1][1]

Range(s) == {s[i] : i \in DOMAIN s}

Last(s) == s[Len(s)]

HasDrop == \E i \in DOMAIN log : log[i].op = "DropLeft"

\* the writer calls that have returned
Completed == IF pc = "idle" THEN log ELSE SubSeq(log, 1, Len(log) - 1)

\* ---- the map the tree stands for: pairs sorted by key ----------------------------------
AbsInsert(s, k, v) ==
    SelectSeq(s, LAMBDA p : p[1] < k) \o <<<<k, v>>>>
        \o SelectSeq(s, LAMBDA p : p[1] > k)

AbsDrop(s) == IF s = <<>> THEN <<>> ELSE Tail(s)

RECURSIVE AbsApply(_)
AbsApply(l) ==
    IF l = <<>> THEN <<>>
    ELSE LET before == AbsApply(SubSeq(l, 1, Len(l) - 1))
             o == Last(l)
         IN  IF o.op = "Insert" THEN AbsInsert(before, o.key, o.value)
             ELSE AbsDrop(before)

\* ---- C1 ---------------------------------------------------------------------------------
\* C1: after any sequence of Insert and DropLeft calls, a full in-order Traverse of
\* Root() visits keys in strictly ascending order, and at every node all keys on the
\* left are smaller and all keys on the right are greater than the node's key.
C1_Ordered ==
    /\ StrictlyAscending(Traverse(heap, root))
    /\ IsBST(heap, root)

\* a tree of three or more keys, published by an Insert that followed a DropLeft and
\* whose root has two children
C1_Witness ==
    /\ pc = "idle"
    /\ HasDrop
    /\ Last(log).op = "Insert"
    /\ root # NIL
    /\ heap[root].left # NIL
    /\ heap[root].right # NIL
    /\ Len(Traverse(heap, root)) >= 3

\* ---- C2 ---------------------------------------------------------------------------------
\* C2: after any sequence of Insert calls alone, every node of the snapshot returned
\* by Root() has left and right subtree heights that differ by at most 1.
C2_BalancedByInsert == (~HasDrop) => IsAVL(heap, root)

\* ---- C3 ---------------------------------------------------------------------------------
\* C3: in every snapshot ever published by Insert or DropLeft, every node has left and
\* right subtree heights that differ by at most 1.
C3_BalancedAlways == \A i \in DOMAIN pub : IsAVL(heap, pub[i])

\* ---- C4 ---------------------------------------------------------------------------------
\* every node reachable from the current root or from any root published before
PublishedReach == UNION {Reach(heap, pub[i]) : i \in DOMAIN pub}

IsPrefix(s, t) == Len(s) <= Len(t) /\ SubSeq(t, 1, Len(s)) = s

\* C4: no step of Insert or DropLeft writes a field of a node reachable from the
\* current or any previously published root, and a reader traversing a snapshot it got
\* from Root() sees exactly the keys and values the snapshot had when it was loaded,
\* however the writer's steps interleave with the traversal.
C4_SnapshotIsolation ==
    /\ [][\A p \in PublishedReach : p <= Len(heap') /\ heap'[p] = heap[p]]_vars
    /\ [](/\ IsPrefix(rvisited, rexpect)
          /\ rstack = <<>> => rvisited = rexpect
          /\ Traverse(heap, rsnap) = rexpect)

\* the reader is in the middle of traversing a snapshot that the writer has replaced
\* since it was loaded
C4_Witness ==
    /\ rsnap # NIL
    /\ rsnap # root
    /\ rvisited # <<>>
    /\ rstack # <<>>
    /\ Len(pub) > rver

\* ---- C5 ---------------------------------------------------------------------------------
\* C5: each Insert or DropLeft call stores the root exactly once, after the new tree is
\* built; so whatever Root() returns, in any state, is the root of the complete tree
\* that results from the writer calls that have returned, never an intermediate one.
C5_AtomicPublication ==
    /\ Len(pub) = Len(Completed) + 1
    /\ root = Last(pub)
    /\ Traverse(heap, root) = AbsApply(Completed)
    /\ \A p \in Reach(heap, root) : heap[p].height >= 1

\* the writer is inside Insert with a new tree built but not stored, and Root() still
\* returns the non-empty tree of the calls before
C5_Witness ==
    /\ pc = "L300"
    /\ root # NIL
    /\ r # root
    /\ Len(Traverse(heap, r)) > Len(Traverse(heap, root))
    /\ Len(pub) >= 3

\* ---- C6 ---------------------------------------------------------------------------------
\* C6: Insert(k, v) is a map update: the pairs visited by a full Traverse of the new
\* Root() are the previous pairs with k mapped to v; Added and Size grow by exactly 1
\* when k was absent and stay as they were when k was present.
C6_InsertIsMapUpdate ==
    (pc = "idle" /\ log # <<>> /\ Last(log).op = "Insert") =>
        LET k   == Last(log).key
            v   == Last(log).value
            old == Range(pre.kv)
            new == {p \in old : p[1] # k} \cup {<<k, v>>}
            inc == IF \E p \in old : p[1] = k THEN 0 ELSE 1
        IN  /\ Range(Traverse(heap, root)) = new
            /\ Len(Traverse(heap, root)) = Cardinality(new)
            /\ Stats.Added = pre.stat.Added + inc
            /\ Stats.Size = pre.stat.Size + inc

\* an Insert that returned after replacing the value of a present key, in a tree that
\* has seen a DropLeft and holds other keys too
C6_Witness ==
    /\ pc = "idle"
    /\ HasDrop
    /\ log # <<>>
    /\ Last(log).op = "Insert"
    /\ \E p \in Range(pre.kv) : p[1] = Last(log).key /\ p[2] # Last(log).value
    /\ Len(pre.kv) >= 2

\* ---- C7 ---------------------------------------------------------------------------------
RECURSIVE TrailingDrops(_)
TrailingDrops(l) ==
    IF l = <<>> THEN 0
    ELSE IF Last(l).op # "DropLeft" THEN 0
    ELSE 1 + TrailingDrops(SubSeq(l, 1, Len(l) - 1))

\* C7: DropLeft on a non-empty tree removes exactly the smallest key and keeps every
\* other key with its value; DropLeft applied repeatedly removes the keys in ascending
\* order until the tree is empty (Root() = nil).
C7_DropLeftRemovesMin ==
    (pc = "idle" /\ log # <<>> /\ Last(log).op = "DropLeft") =>
        LET old  == Range(pre.kv)
            j    == TrailingDrops(log)
            base == AbsApply(SubSeq(log, 1, Len(log) - j))
            now  == Traverse(heap, root)
        IN  /\ old # {} =>
                 LET mn == CHOOSE p \in old : \A q \in old : p[1] <= q[1]
                 IN  /\ Range(now) = old \ {mn}
                     /\ Len(now) = Cardinality(old) - 1
            /\ now = SubSeq(base, j + 1, Len(base))
            /\ j >= Len(base) => root = NIL

\* the second of two DropLeft calls in a row has returned, and keys remain
C7_Witness ==
    /\ pc = "idle"
    /\ TrailingDrops(log) >= 2
    /\ Len(pre.kv) >= 2
    /\ root # NIL

\* ---- C8 ---------------------------------------------------------------------------------
\* C8: in every state, also in the middle of a writer call, the published Size
\* (Added - Dropped) is not larger than the number of nodes reachable from the
\* published root.
C8_SizeNeverAhead == Stats.Size <= Cardinality(Reach(heap, root))

\* ---- C9 ---------------------------------------------------------------------------------
\* C9: a Root() load made when n writer calls have returned yields the tree of those n
\* calls (so a load after a call returned reflects it and all earlier calls);
\* successive loads never go back to an older snapshot; and once the writer stops, a
\* reader that keeps polling Root() eventually, and from then on always, holds the
\* final tree.
C9_Visibility ==
    /\ [](rver > 0 => rexpect = AbsApply(SubSeq(log, 1, rver - 1)))
    /\ [][rver' >= rver]_vars
    /\ <>[](rsnap = root /\ rexpect = AbsApply(Completed))

\* the reader holds the tree of three returned calls, loaded after the last returned
C9_Witness ==
    /\ pc = "idle"
    /\ Len(log) >= 3
    /\ rver = Len(log) + 1
    /\ rsnap = root
    /\ root # NIL

\* ---- C10 --------------------------------------------------------------------------------
\* C10: DropLeft on an empty tree is a no-op: Root() stays nil and Stats() is the same
\* before and after the call.
C10_DropOnEmptyIsNop ==
    (pc = "idle" /\ log # <<>> /\ Last(log).op = "DropLeft" /\ pre.kv = <<>>) =>
        (root = NIL /\ Stats = pre.stat)

\* ---- C11 --------------------------------------------------------------------------------
\* the keys a map holds after the calls of l, and how many of the Insert calls of l
\* were made with a key the map did not hold at the time
RECURSIVE AbsCount(_)
AbsCount(l) ==
    IF l = <<>> THEN [keys |-> {}, added |-> 0]
    ELSE LET b == AbsCount(SubSeq(l, 1, Len(l) - 1))
             o == Last(l)
         IN  IF o.op = "Insert"
             THEN [keys  |-> b.keys \cup {o.key},
                   added |-> b.added + (IF o.key \in b.keys THEN 0 ELSE 1)]
             ELSE [keys  |-> {k \in b.keys : \E j \in b.keys : j < k},
                   added |-> b.added]

AddedCount(l) == AbsCount(l).added

\* the DropLeft calls of l, whatever the tree held
DroppedCount(l) == Cardinality({i \in DOMAIN l : l[i].op = "DropLeft"})

C12_HeightsAccurate ==
    \A p \in Reach(heap, root) :
        LET hl == IF heap[p].left = NIL THEN 0 ELSE heap[heap[p].left].height
            hr == IF heap[p].right = NIL THEN 0 ELSE heap[heap[p].right].height
        IN  /\ heap[p].height = 1 + (IF hl > hr THEN hl ELSE hr)
            /\ heap[p].height = TrueHeight(heap, p)

\* a DropLeft has returned that rebuilt a chain of two or more nodes and made the tree
\* lower than it was
C12_Witness ==
    /\ pc = "idle"
    /\ log # <<>>
    /\ Last(log).op = "DropLeft"
    /\ root # NIL
    /\ heap[root].left # NIL
    /\ heap[root].height < heap[pub[Len(pub) - 1]].height

\* ---- C13 --------------------------------------------------------------------------------
\* the (key, value) pairs of the nodes of a snapshot
PairsOf(h, n) == {<<h[p].Key, h[p].Value>> : p \in Reach(h, n)}

\* C13: on every snapshot (every value root takes), Traverse(n, f) calls f on the keys
\* of the snapshot in ascending order; if f
\* returns false on its k-th call, Traverse makes no further call (exactly the k
\* smallest keys were visited) and returns false; Traverse returns true exactly when f
\* never returned false, in particular on an empty tree.
C13_TraverseStops ==
    LET all == PairsOf(heap, root)
        N   == Cardinality(all)
    IN  \A stop \in 0..(N + 1) :
          LET res == TraverseF(heap, root, <<>>, stop)
              k   == IF stop \in 1..N THEN stop ELSE N
              got == Range(res.calls)
          IN  /\ StrictlyAscending(res.calls)
              /\ Len(res.calls) = k
              /\ got \subseteq all
              /\ \A q \in all \ got : \A p \in got : p[1] < q[1]
              /\ res.ret = (stop \notin 1..N)

\* a tree of four or more keys, published after a DropLeft, whose root has both
\* children, for which a visitor that says false on its 2nd call stops Traverse inside
\* the left subtree
C13_Witness ==
    /\ pc = "idle"
    /\ HasDrop
    /\ root # NIL
    /\ heap[root].left # NIL
    /\ heap[root].right # NIL
    /\ Cardinality(Reach(heap, heap[root].left)) >= 2
    /\ ~TraverseF(heap, root, <<>>, 2).ret
    /\ Len(TraverseF(heap, root, <<>>, 2).calls) = 2
    /\ TraverseF(heap, root, <<>>, 0).ret

\* ---- C14 --------------------------------------------------------------------------------
\* the 1-based depth of the node that holds key, found by looking at every node of the
\* snapshot; 0 when no node holds it
RECURSIVE DepthOf(_, _, _, _)
DepthOf(h, n, key, d) ==
    IF n = NIL THEN 0
    ELSE IF h[n].Key = key THEN d
    ELSE LET a == DepthOf(h, h[n].left, key, d + 1)
             b == DepthOf(h, h[n].right, key, d + 1)
         IN  IF a > b THEN a ELSE b

\* C14: HeightFrom(key, root) returns 0 exactly when key is not in the snapshot, and
\* otherwise the 1-based depth of the node holding key (1 for the root), for every
\* snapshot published by Insert and DropLeft (every value root takes).
C14_HeightFromIsDepth ==
    LET ks == KeysOf(heap, root)
    IN  \A key \in Keys :
          LET d == HeightFrom(heap, key, root)
          IN  /\ d = DepthOf(heap, root, key, 1)
              /\ (d = 0) <=> (key \notin ks)
              /\ (root # NIL /\ key = heap[root].Key) => d = 1

\* a tree published after a DropLeft in which one key is found at depth 3 or more and
\* another key is absent
C14_Witness ==
    /\ pc = "idle"
    /\ HasDrop
    /\ \E key \in Keys : HeightFrom(heap, key, root) >= 3
    /\ \E key \in Keys : HeightFrom(heap, key, root) = 0

\* ---- C15 --------------------------------------------------------------------------------
\* C15: the early return of balance's Right Left branch is taken only after a DropLeft:
\* in a history of Insert calls alone, starting from an empty tree, balance never gives
\* back unrotated a node whose left and right subtree heights differ by more than 1.
C15_EarlyReturnOnlyAfterDrop == (~HasDrop) => ~unrot

\* ---- C17 --------------------------------------------------------------------------------
\* the node of a snapshot that holds key
NodeOf(h, n, key) == CHOOSE p \in Reach(h, n) : h[p].Key = key

\* a subtree as a value: keys, values and arrangement
RECURSIVE Shape(_, _)
Shape(h, n) ==
    IF n = NIL THEN <<>>
    ELSE <<h[n].Key, h[n].Value, Shape(h, h[n].left), Shape(h, h[n].right)>>

\* C17: re-inserting a key that is already present, after any sequence of Insert and
\* DropLeft calls, only replaces the value: in the new snapshot the node holding the
\* key has the same left subtree, the same right subtree and the same height as the
\* node holding it in the previous snapshot.
C17_ReinsertKeepsStructure ==
    (/\ pc = "idle"
     /\ log # <<>>
     /\ Last(log).op = "Insert"
     /\ \E p \in Range(pre.kv) : p[1] = Last(log).key) =>
        LET old == NodeOf(heap, pub[Len(pub) - 1], Last(log).key)
            new == NodeOf(heap, root, Last(log).key)
        IN  /\ Shape(heap, heap[new].left) = Shape(heap, heap[old].left)
            /\ Shape(heap, heap[new].right) = Shape(heap, heap[old].right)
            /\ heap[new].height = heap[old].height

\* ---- C16 --------------------------------------------------------------------------------
\* C16: Insert never dereferences an absent child, after any sequence of Insert and
\* DropLeft calls: whenever rightRotate(y) is invoked y.left is present, whenever
\* leftRotate(x) is invoked x.right is present, and balance reads n.left.Key or
\* n.right.Key only when that child is present.
C16_NoNilDereference == pc # "panic"

\* ---- C19 --------------------------------------------------------------------------------
\* C19: Stats() never returns a torn value.  Each counter update is published as a
\* freshly allocated Stat through one store of the stats pointer and no Stat is modified
\* after it was published; so in every state, also in the middle of a writer call, the
\* Stat a reader obtains has the (Added, Dropped) pair the counters had after one single
\* update (the update of the latest call begun), with Size = Added - Dropped.
C19_StatsNeverTorn ==
    /\ [][/\ \A i \in DOMAIN sheap : i <= Len(sheap') /\ sheap'[i] = sheap[i]
          /\ stats' # stats =>
                /\ stats' \notin DOMAIN sheap
                /\ stats' \in DOMAIN sheap'
                /\ \/ /\ sheap'[stats'].Added = sheap[stats].Added + 1
                      /\ sheap'[stats'].Dropped = sheap[stats].Dropped
                   \/ /\ sheap'[stats'].Added = sheap[stats].Added
                      /\ sheap'[stats'].Dropped = sheap[stats].Dropped + 1]_vars
    /\ [](/\ stats \in DOMAIN sheap
          /\ Stats.Added = AddedCount(log)
          /\ Stats.Dropped = DroppedCount(log)
          /\ Stats.Size = Stats.Added - Stats.Dropped)

\* the writer is inside a DropLeft that follows an Insert of an absent key: the Stat
\* published at the start of the call is already visible, the new root is not
C19_Witness ==
    /\ pc = "L442"
    /\ Len(log) >= 2
    /\ log[Len(log) - 1].op = "Insert"
    /\ Stats.Added = pre.stat.Added
    /\ Stats.Dropped = pre.stat.Dropped + 1
    /\ Len(sheap) >= 3
    /\ root # r

\* ---- C20 --------------------------------------------------------------------------------
\* C20: in the pointer-identity variant (src/tree.go, Insert only), after any sequence
\* of Inserts, re-insertions of present keys included, the subtree heights differ by at
\* most 1 at every node, an in-order Traverse is strictly ascending, and Size() is the
\* number of distinct keys inserted.
C20_PtrVariantBalanced ==
    /\ pc # "panic"
    /\ IsAVL(heap, root)
    /\ IsBST(heap, root)
    /\ StrictlyAscending(Traverse(heap, root))
    /\ Size = Cardinality({log[i].key : i \in DOMAIN log})
    /\ KeysOf(heap, root) = {log[i].key : i \in DOMAIN log}

\* a re-insertion of a key held at depth 3 has returned, in a tree of six keys that
\* an Insert of a new key completed just before
C20_Witness ==
    /\ pc = "idle"
    /\ Calls = 2
    /\ \E p \in Range(pre.kv) : p[1] = Last(log).key
    /\ HeightFrom(heap, Last(log).key, root) >= 3
    /\ Size = 6
    /\ Size > n0

\* ---- C18 --------------------------------------------------------------------------------
\* math.Ceil(math.Log2(float64(n))) for n >= 1: the least e with 2^e >= n
CeilLog2(n) == CHOOSE e \in 0..n : 2 ^ e >= n /\ \A d \in 0..(e - 1) : 2 ^ d < n

\* some DropLeft call of l was made on an empty tree
DropOnEmpty(l) ==
    \E i \in DOMAIN l : l[i].op = "DropLeft" /\ AbsApply(SubSeq(l, 1, i - 1)) = <<>>

\* C18: after any calls of Insert and DropLeft among which no DropLeft was made on an
\* empty tree, the height of the tree, and so what HeightFrom reports for any of its
\* keys, exceeds ceil(log2(size + 2)) - 1 by less than 5, size being the number of keys.
C18_HeightBound ==
    (pc = "idle" /\ root # NIL /\ ~DropOnEmpty(log)) =>
        LET perfectHeight == CeilLog2(Cardinality(Reach(heap, root)) + 2) - 1
        IN  /\ heap[root].height - perfectHeight < 5
            /\ \A key \in KeysOf(heap, root) :
                   HeightFrom(heap, key, root) - perfectHeight < 5

====
